---- MODULE Spec2Model ----
(***************************************************************************)
(* cnifty: the content generation pipeline of                              *)
(* src/cnifty/content/generate_content.py as a state machine.              *)
(*                                                                         *)
(* Conventions.  Python's 0-based positions are 1-based here.  A trait row  *)
(* is the 4-tuple <<type, name, rarity weight, image>> of __load_traits;    *)
(* after the sampler (np.delete of column 2) it is <<type, name, image>>.   *)
(* Python's None is the value None for the string columns and NoImage for  *)
(* the image column.  A decoded image is the sequence of the layers it is   *)
(* made of, bottom first: the image loaded for row i is <<i>> and           *)
(* Image.alpha_composite(a, b) is a \o b.  A float64 probability or variate *)
(* is the exact fraction <<numerator, denominator>>; x/0 with x = 0 is NaN. *)
(***************************************************************************)
EXTENDS Integers, Sequences, FiniteSets

\* ---------------------------------------------------------------- bounds
\* Largest number of data rows of the trait CSV file.
MaxRows == 3
\* Largest AMOUNT argument.
MaxAmount == 2

\* ------------------------------------------------------------ input sets
\* Python None in a string column (distinct from every CSV cell).
None == "<None>"
\* Python None in the image column: no layer.
NoImage == << >>
\* --seed not given.
NoSeed == << >>
\* The Type cells of the CSV file, and their order under Python's str "<".
TypeOrder == <<"A", "B">>
Types == {TypeOrder[i] : i \in 1..Len(TypeOrder)}
\* The Name cells of the CSV file; "" is the empty cell of the absent option.
CsvNames == {"", "x"}
\* The Rarity Weight cells, already through int().
Weights == {0, 1}
\* The --seed values tried.
Seeds == {0, 1}
\* One data row of the CSV file: Type, Name, Rarity Weight, Image Path.  The
\* absent option has neither name nor image path; a named trait has a path.
CsvRows == {<<t, n, w, IF n = "" THEN "" ELSE "png">> : t \in Types, n \in CsvNames, w \in Weights}
\* The CSV files: 1..MaxRows data rows.
CsvFiles == UNION {[1..n -> CsvRows] : n \in 1..MaxRows}

\* ---------------------------------------------------------------- helpers
RECURSIVE SumSeq(_)
SumSeq(s) == IF s = << >> THEN 0 ELSE Head(s) + SumSeq(Tail(s))

RECURSIVE Factorial(_)
Factorial(n) == IF n <= 1 THEN 1 ELSE n * Factorial(n - 1)

\* 1, 2, ..., n
IndexSeq(n) == [i \in 1..n |-> i]

\* The elements of a set of integers in ascending order (np.sort).
RECURSIVE SortSet(_)
SortSet(S) ==
    IF S = {} THEN << >>
    ELSE LET m == CHOOSE x \in S : \A y \in S : x <= y
         IN <<m>> \o SortSet(S \ {m})

\* `x or None` of a CSV cell.
OrNone(cell) == IF cell = "" THEN None ELSE cell

\* numpy's astype('U') of an object: str(); None becomes the text 'None'.
StrU(v) == IF v = None THEN "None" ELSE v

\* ------------------------------------------------------------ trait table
\* __load_traits: the rows of the CSV file with empty cells as None and each
\* image path replaced by the image it names.
LoadTraits(csv) ==
    [i \in 1..Len(csv) |->
        <<OrNone(csv[i][1]), OrNone(csv[i][2]), csv[i][3],
          IF csv[i][4] = "" THEN NoImage ELSE <<i>> >>]

\* ------------------------------------------------------- weight normalizer
\* np.unique of the type column: the distinct types, sorted.
UniqueTypes(tr) ==
    SelectSeq(TypeOrder, LAMBDA t : \E i \in 1..Len(tr) : tr[i][1] = t)

\* _normalize_indexed_rarity_weights: weights / weights.sum(); a group is a
\* sequence of <<row index, probability>>.  No error when the sum is zero:
\* the division then yields NaN (0/0) entries.
NormalizeIndexedRarityWeights(weight_matrix) ==
    LET total == SumSeq([k \in 1..Len(weight_matrix) |-> weight_matrix[k][2]])
    IN [k \in 1..Len(weight_matrix) |->
           <<weight_matrix[k][1], <<weight_matrix[k][2], total>> >>]

\* __get_normalized_rarity_weight_groups: the row indexes argsorted by type,
\* split where the type changes, each group normalized.  Groups come in
\* sorted type order; inside a group the rows keep their file order.
GetNormalizedRarityWeightGroups(tr) ==
    LET types == UniqueTypes(tr)
    IN [g \in 1..Len(types) |->
           LET rows == SelectSeq(IndexSeq(Len(tr)), LAMBDA i : tr[i][1] = types[g])
           IN NormalizeIndexedRarityWeights([k \in 1..Len(rows) |-> <<rows[k], tr[rows[k]][3]>>])]

\* True when a probability is NaN.
IsNaN(p) == p[2] = 0 /\ p[1] = 0

\* ------------------------------------------------------- random generator
\* np.random.default_rng() with the seed dropped.
DefaultRngUnseeded(sd) == {[seeded |-> FALSE, state |-> 0]}

\* np.random.default_rng(seed): the generators it may return.  With a seed
\* the state is derived from the seed alone; without one it is seeded from
\* operating system entropy, modelled as a generator whose every variate is
\* free.
DefaultRng(sd) ==
    IF sd = NoSeed THEN {[seeded |-> FALSE, state |-> 0]}
    ELSE {[seeded |-> TRUE, state |-> sd[1] % 8]}

\* One step of the bit generator (a full-period congruential generator on
\* 0..7 stands for PCG64).
Advance(state) == (5 * state + 3) % 8

RECURSIVE AdvanceBy(_, _)
AdvanceBy(state, n) == IF n = 0 THEN state ELSE AdvanceBy(Advance(state), n - 1)

\* The uniform variates in [0, 1) that the calls of rng.choice of one draw
\* may consume, call g choosing in the g-th group.  Seeded: the one stream
\* the state determines.  Unseeded: any; searchsorted is constant between two
\* consecutive values of the group's cumulative weights, so the multiples of
\* 1/total of each group stand for the interval [0, 1) (a group's total is
\* at most the number of rows, the weights being 0 or 1).
Variates(generator, groups) ==
    LET total(g) == groups[g][1][2][2]
    IN IF generator.seeded
       THEN {[g \in 1..Len(groups) |-> <<AdvanceBy(generator.state, g - 1), 8>>]}
       ELSE {[g \in 1..Len(groups) |-> <<ks[g], total(g)>>] :
                ks \in {f \in [1..Len(groups) -> 0..(MaxRows - 1)] :
                           \A g \in 1..Len(groups) : f[g] < total(g)}}

\* Generator.choice(a, p) raises ValueError("probabilities contain NaN").
\* (Weights are not negative here, so its other checks of p pass.)
ChoiceRaises(group) == \E k \in 1..Len(group) : IsNaN(group[k][2])

\* Generator.choice(a=group[:, 0], p=group[:, 1]) for the uniform variate u:
\* cdf = cumsum(p); a[cdf.searchsorted(u, side='right')].
Choice(group, u) ==
    LET total == group[1][2][2]
        cum(k) == SumSeq([j \in 1..k |-> group[j][2][1]])
        below == {k \in 1..Len(group) : cum(k) * u[2] <= u[1] * total}
    IN group[Cardinality(below) + 1][1]

\* -------------------------------------------------------------- sampler
\* __get_random_traits without the np.sort: the rows in group order.
GetRandomTraitsUnsorted(tr, groups, us) ==
    [g \in 1..Len(groups) |-> tr[Choice(groups[g], us[g])]]

\* __get_random_traits: one row index drawn per group, the indexes sorted
\* ascending (np.sort), the rows looked up in that order.
GetRandomTraits(tr, groups, us) ==
    LET random_trait_indexes ==
            SortSet({Choice(groups[g], us[g]) : g \in 1..Len(groups)})
    IN [k \in 1..Len(random_trait_indexes) |-> tr[random_trait_indexes[k]]]

\* tuple(random_traits[:, 1]): the names of an item's slots, left to right.
TraitNames(random_traits) == [k \in 1..Len(random_traits) |-> random_traits[k][2]]

\* bar.update(1) on every draw, accepted or not.
NextPosAlways(p, accepted) == p + 1
\* bar.pos after one draw: bar.update(1) inside the `if`.
NextPos(p, accepted) == IF accepted THEN p + 1 ELSE p

\* ------------------------------------------------------- metadata writer
\* f'{token_name} #{n}': the name of the n-th token.
TokenLabel(n) == <<"token #", n>>

\* f'{token_name} #{n}.png': the file name of an image.
ImageFileName(n) == <<"token #", n, ".png">>

\* np.delete(arr=token_data, obj=2, axis=2): the rows without their weights.
DeleteWeights(td) ==
    [i \in 1..Len(td) |-> [k \in 1..Len(td[i]) |-> <<td[i][k][1], td[i][k][2], td[i][k][4]>>]]

\* dict(pairs) of an item's (type, name) pairs: a later pair of the same
\* type replaces an earlier one.
DictOf(item) ==
    [t \in {item[k][1] : k \in 1..Len(item)} |->
        LET last == CHOOSE k \in 1..Len(item) :
                       /\ item[k][1] = t
                       /\ \A j \in 1..Len(item) : item[j][1] = t => j <= k
        IN item[last][2]]

\* The keys of dict(pairs), in insertion order.
KeysOf(item) ==
    LET firsts == SelectSeq(IndexSeq(Len(item)),
                            LAMBDA k : \A j \in 1..(k - 1) : item[j][1] # item[k][1])
    IN [n \in 1..Len(firsts) |-> item[firsts[n]][1]]

\* __generate_metadata: one dictionary per item, 'Name' then its (type, name)
\* pairs; the header is the key list of the first dictionary.
GenerateMetadata(td) ==
    [fieldnames |-> <<"Name">> \o KeysOf(td[1]),
     rows |-> [i \in 1..Len(td) |-> [Name |-> TokenLabel(i), traits |-> DictOf(td[i])]]]

\* ------------------------------------------------------ statistics engine
\* np.vstack(token_data[:, :, :2]).astype('U'): the (type, name) pair of
\* every slot of every item, as text; nothing is filtered out.
FilteredTrait(td, i, k) == <<StrU(td[i][k][1]), StrU(td[i][k][2])>>

Slots(td) == {<<i, k>> : i \in 1..Len(td), k \in 1..Len(td[1])}

\* unique_trait_frequencies of a pair: the number of slots holding it.
TraitFrequency(td, pair) ==
    Cardinality({s \in Slots(td) : FilteredTrait(td, s[1], s[2]) = pair})

\* The rows of trait_frequencies.csv: Type, Name, Frequency.
TraitFrequencyTable(td) ==
    {<<FilteredTrait(td, s[1], s[2])[1], FilteredTrait(td, s[1], s[2])[2],
       TraitFrequency(td, FilteredTrait(td, s[1], s[2]))>> : s \in Slots(td)}

\* __generate_trait_frequencies: for each item, the frequency of each slot.
GenerateTraitFrequencies(td) ==
    [i \in 1..Len(td) |->
        [k \in 1..Len(td[i]) |-> TraitFrequency(td, FilteredTrait(td, i, k))]]

\* np.count_nonzero(token_data[:, :, 1], axis=1): the slots whose name is
\* not None.
TraitsCount(item) == Cardinality({k \in 1..Len(item) : item[k][2] # None})

TraitCountFrequency(td, c) == Cardinality({i \in 1..Len(td) : TraitsCount(td[i]) = c})

\* The rows of trait_count_frequencies.csv: Count, Frequency.
TraitCountFrequencyTable(td) ==
    {<<TraitsCount(td[i]), TraitCountFrequency(td, TraitsCount(td[i]))>> : i \in 1..Len(td)}

\* __generate_trait_count_frequencies: per item, the frequency of its count.
GenerateTraitCountFrequencies(td) ==
    [i \in 1..Len(td) |-> TraitCountFrequency(td, TraitsCount(td[i]))]

\* The exact fraction sum(n / x for x in xs), over the denominator n!.
SumOfQuotients(n, xs) ==
    <<SumSeq([k \in 1..Len(xs) |-> n * (Factorial(n) \div xs[k])]), Factorial(n)>>

\* __generate_rarities: np.sum(len(frequencies) / x) over every column of the
\* item's row of np.column_stack((trait_frequencies, trait_count_frequencies)).
GenerateRarities(trait_frequencies, trait_count_frequencies) ==
    [i \in 1..Len(trait_frequencies) |->
        <<TokenLabel(i),
          SumOfQuotients(Len(trait_frequencies),
                         Append(trait_frequencies[i], trait_count_frequencies[i]))>>]

\* ------------------------------------------------------------ compositor
\* Image.alpha_composite(im1, im2): im2 over im1.
AlphaComposite(im1, im2) == im1 \o im2

\* __combine_images; returns None when both are None.
CombineImages(a, b) ==
    IF a # NoImage /\ b # NoImage THEN AlphaComposite(a, b)
    ELSE IF a # NoImage THEN a
    ELSE IF b # NoImage THEN b
    ELSE NoImage

\* functools.reduce(__combine_images, trait_images), no initial value.
RECURSIVE ReduceImages(_)
ReduceImages(trait_images) ==
    IF Len(trait_images) = 1 THEN trait_images[1]
    ELSE CombineImages(ReduceImages(SubSeq(trait_images, 1, Len(trait_images) - 1)),
                       trait_images[Len(trait_images)])

\* The images of an item's slots, left to right: token_data[:, :, 2].
TraitImages(item) == [k \in 1..Len(item) |-> item[k][3]]

\* bar.pos while the body of `for trait_images in bar` runs on the i-th item.
\* A visible bar counts each item after its body; click's bar on a stream
\* that is not a terminal is hidden and hands the items out without counting.
BarPos(i, hidden) == IF hidden THEN 0 ELSE i - 1

\* path.write of a file: a file of that name is replaced.
Save(files, name, content) ==
    {f \in files : f.name # name} \cup {[name |-> name, content |-> content]}

\* The loop of __generate_images from item i on: each item's layers are
\* combined and saved under the bar's position; combined_image.save raises
\* AttributeError on None, and the loop stops there.
RECURSIVE SaveImages(_, _, _, _)
SaveImages(td, i, files, hidden) ==
    IF i > Len(td) THEN [files |-> files, err |-> ""]
    ELSE LET combined_image == ReduceImages(TraitImages(td[i]))
         IN IF combined_image = NoImage
            THEN [files |-> files, err |-> "AttributeError"]
            ELSE SaveImages(td, i + 1,
                            Save(files, ImageFileName(BarPos(i, hidden) + 1), combined_image),
                            hidden)

VARIABLES
    traits,               \* the loaded trait table
    amount,               \* AMOUNT
    seed,                 \* --seed: NoSeed or <<s>>
    rng,                  \* the random generator
    pc,                   \* where generate_content is
    err,                  \* the exception that ended the run, "" if none
    rarity_weight_groups, \* the normalized groups
    generated_traits,     \* the set of name tuples already generated
    token_data,           \* the accepted items, in order
    pos,                  \* bar.pos of the sampler's progress bar
    out_files,            \* the directories and tables written
    metadata,             \* the content of metadata.csv
    statistics,           \* the content of the statistics tables
    images,               \* the image files written: name -> content
    run,                  \* 1, or 2 in a repeated execution
    first                 \* what the first execution produced

vars == <<traits, amount, seed, rng, pc, err, rarity_weight_groups, generated_traits,
          token_data, pos, out_files, metadata, statistics, images, run, first>>

outputs == <<out_files, metadata, statistics, images>>
inputs == <<traits, amount, seed>>
reruns == <<run, first>>

NoStatistics == [trait_frequencies |-> {}, trait_count_frequencies |-> {}, rarity_scores |-> << >>]

\* generate_content is entered with its arguments parsed, and has made the
\* generator; nothing is loaded yet.
Start(sds) ==
    /\ traits = << >>
    /\ amount \in 1..MaxAmount
    /\ seed \in sds
    /\ rng \in DefaultRng(seed)
    /\ pc = "load"
    /\ err = ""
    /\ rarity_weight_groups = << >>
    /\ generated_traits = {}
    /\ token_data = << >>
    /\ pos = 0
    /\ out_files = {}
    /\ metadata = << >>
    /\ statistics = NoStatistics
    /\ images = {}
    /\ run = 1
    /\ first = << >>

Init == Start({NoSeed})

\* __load_traits of the file IN_FILE names.
Load ==
    /\ pc = "load"
    /\ \E csv \in CsvFiles : traits' = LoadTraits(csv)
    /\ pc' = "normalize"
    /\ UNCHANGED <<amount, seed, rng, err, rarity_weight_groups, generated_traits, token_data,
                   pos, outputs, reruns>>

\* __get_normalized_rarity_weight_groups, then the sampler's set-up.
Normalize ==
    /\ pc = "normalize"
    /\ rarity_weight_groups' = GetNormalizedRarityWeightGroups(traits)
    /\ pc' = "sample"
    /\ UNCHANGED <<inputs, rng, err, generated_traits, token_data, pos, outputs, reruns>>

\* One iteration of the loop of __generate_token_data.
SampleStep ==
    /\ pc = "sample"
    /\ pos < amount
    /\ IF \E g \in 1..Len(rarity_weight_groups) : ChoiceRaises(rarity_weight_groups[g])
       THEN /\ pc' = "failed"
            /\ err' = "ValueError"
            /\ UNCHANGED <<rng, generated_traits, token_data, pos>>
       ELSE \E random_traits \in {GetRandomTraits(traits, rarity_weight_groups, us) :
                                     us \in Variates(rng, rarity_weight_groups)} :
               /\ rng' = [rng EXCEPT !.state =
                            IF rng.seeded THEN AdvanceBy(@, Len(rarity_weight_groups)) ELSE @]
               /\ generated_traits' =
                     IF TraitNames(random_traits) \notin generated_traits
                     THEN generated_traits \cup {TraitNames(random_traits)}
                     ELSE generated_traits
               /\ token_data' =
                     IF TraitNames(random_traits) \notin generated_traits
                     THEN Append(token_data, random_traits)
                     ELSE token_data
               /\ pos' = NextPos(pos, TraitNames(random_traits) \notin generated_traits)
               /\ UNCHANGED <<pc, err>>
    /\ UNCHANGED <<inputs, rarity_weight_groups, outputs, reruns>>

\* The loop of __generate_token_data ends, the weights are dropped, and
\* generate_content makes the output directory.
MakeOutDir ==
    /\ pc = "sample"
    /\ pos >= amount
    /\ token_data' = DeleteWeights(token_data)
    /\ out_files' = out_files \cup {"out_dir"}
    /\ pc' = "metadata"
    /\ UNCHANGED <<inputs, rng, err, rarity_weight_groups, generated_traits, pos,
                   metadata, statistics, images, reruns>>

\* __generate_metadata
WriteMetadata ==
    /\ pc = "metadata"
    /\ metadata' = GenerateMetadata(token_data)
    /\ out_files' = out_files \cup {"metadata.csv"}
    /\ pc' = "statistics"
    /\ UNCHANGED <<inputs, rng, err, rarity_weight_groups, generated_traits, token_data, pos,
                   statistics, images, reruns>>

\* __generate_statistics
WriteStatistics ==
    /\ pc = "statistics"
    /\ statistics' =
          [trait_frequencies |-> TraitFrequencyTable(token_data),
           trait_count_frequencies |-> TraitCountFrequencyTable(token_data),
           rarity_scores |-> GenerateRarities(GenerateTraitFrequencies(token_data),
                                              GenerateTraitCountFrequencies(token_data))]
    /\ out_files' = out_files \cup {"statistics", "trait_frequencies.csv",
                                    "trait_count_frequencies.csv", "rarity_scores.csv"}
    /\ pc' = "images"
    /\ UNCHANGED <<inputs, rng, err, rarity_weight_groups, generated_traits, token_data, pos,
                   metadata, images, reruns>>

\* __generate_images, on a terminal or not.
WriteImages ==
    /\ pc = "images"
    /\ \E hidden \in BOOLEAN :
          LET saved == SaveImages(token_data, 1, images, hidden)
          IN /\ images' = saved.files
             /\ err' = saved.err
             /\ pc' = IF saved.err = "" THEN "done" ELSE "failed"
    /\ UNCHANGED <<inputs, rng, rarity_weight_groups, generated_traits, token_data, pos,
                   out_files, metadata, statistics, reruns>>

\* The command is executed again with the same arguments on the same file,
\* which loads as the same table.
Rerun ==
    /\ pc \in {"done", "failed"}
    /\ run = 1
    /\ run' = 2
    /\ first' = [token_data |-> token_data, rng |-> rng, pc |-> pc]
    /\ rng' \in DefaultRng(seed)
    /\ pc' = "normalize"
    /\ err' = ""
    /\ rarity_weight_groups' = << >>
    /\ generated_traits' = {}
    /\ token_data' = << >>
    /\ pos' = 0
    /\ out_files' = {}
    /\ metadata' = << >>
    /\ statistics' = NoStatistics
    /\ images' = {}
    /\ UNCHANGED inputs

Next == Load \/ Normalize \/ SampleStep \/ MakeOutDir \/ WriteMetadata \/ WriteStatistics \/ WriteImages

Spec == Init /\ [][Next]_vars

\* The draws are fair: an iteration that changes the state is not put off
\* forever.
FairSpec == Init /\ [][Next]_vars /\ WF_vars(SampleStep)

\* Executions with --seed, each repeated once.
InitSeeded == Start({<<s>> : s \in Seeds})

NextSeeded == Next \/ Rerun

SeededSpec == InitSeeded /\ [][NextSeeded]_vars

\* ================================================================ claims
\* The categories of the table in first-occurrence order.
CategoryOrder(tr) ==
    LET firsts == SelectSeq(IndexSeq(Len(tr)),
                            LAMBDA i : \A j \in 1..(i - 1) : tr[j][1] # tr[i][1])
    IN [n \in 1..Len(firsts) |-> tr[firsts[n]][1]]

Categories(tr) == {tr[i][1] : i \in 1..Len(tr)}

\* The types of an item's slots, left to right.
SlotTypes(item) == [k \in 1..Len(item) |-> item[k][1]]

\* The names an item selects in category t.
SelectedNames(item, t) == {item[k][2] : k \in {j \in 1..Len(item) : item[j][1] = t}}

\* Two items select the same trait name in every category.
SameNamesPerCategory(a, b) ==
    \A t \in Categories(traits) : SelectedNames(a, t) = SelectedNames(b, t)

\* The sum of the Frequency column of a set of table rows.
RECURSIVE SumFrequencies(_)
SumFrequencies(rows) ==
    IF rows = {} THEN 0
    ELSE LET row == CHOOSE r \in rows : TRUE
         IN row[3] + SumFrequencies(rows \ {row})

\* The number of distinct names of category t.
DistinctNames(tr, t) == Cardinality({tr[i][2] : i \in {j \in 1..Len(tr) : tr[j][1] = t}})

\* The product, over the categories cats, of the number of distinct names.
RECURSIVE DistinctNameProduct(_, _)
DistinctNameProduct(tr, cats) ==
    IF cats = {} THEN 1
    ELSE LET t == CHOOSE c \in cats : TRUE
         IN DistinctNames(tr, t) * DistinctNameProduct(tr, cats \ {t})

\* C1: no two accepted items select the same trait name in every category,
\* in every state of the sampler loop and in the set it returns.
C1_UniqueItems ==
    \A i, j \in 1..Len(token_data) :
        i < j => ~SameNamesPerCategory(token_data[i], token_data[j])

\* The rarity weights of some category sum to zero.
ZeroTotalCategory(tr) ==
    \E t \in Categories(tr) :
        SumSeq([i \in 1..Len(tr) |-> IF tr[i][1] = t THEN tr[i][3] ELSE 0]) = 0

\* C2: when amount exceeds the product of the per-category distinct-name
\* counts the run fails with InsufficientCombinationsError before drawing:
\* on a table the normalizer accepts, no item is ever drawn, and the run
\* leaves the sampler only with that error.
C2_InsufficientRejected ==
    (amount > DistinctNameProduct(traits, Categories(traits)) /\ ~ZeroTotalCategory(traits)) =>
        /\ generated_traits = {}
        /\ pc \notin {"load", "normalize", "sample"} => err = "InsufficientCombinationsError"

\* C3: a repeated execution with the same table, amount and seed ends as
\* the first did: the same items in the same order with the same rows in
\* every slot, after the same number of draws.
C3_SeedDeterminism ==
    (run = 2 /\ pc \in {"done", "failed"}) =>
        /\ token_data = first.token_data
        /\ rng = first.rng
        /\ pc = first.pc

C3_Witness ==
    /\ run = 2
    /\ pc = "done"
    /\ seed # NoSeed
    /\ Len(token_data) = 2
    /\ Cardinality(generated_traits) = 2

\* The items whose selection in category t is absent.
AbsentIn(t) == {i \in 1..Len(token_data) : None \in SelectedNames(token_data[i], t)}

\* C4: the trait frequency table has no row for an absent selection, and
\* the frequencies of each category's rows sum to amount minus the number
\* of items whose selection in that category is absent.
C4_AbsentExcluded ==
    "trait_frequencies.csv" \in out_files =>
        LET table == statistics.trait_frequencies
        IN /\ \A t \in Categories(traits) :
                AbsentIn(t) # {} => ~\E row \in table : row[1] = t /\ row[2] = StrU(None)
           /\ \A t \in Categories(traits) :
                SumFrequencies({row \in table : row[1] = t})
                    = amount - Cardinality(AbsentIn(t))

\* The number of items having the (category, name) pair of a slot.
PairFrequency(slot) ==
    Cardinality({i \in 1..Len(token_data) : slot[2] \in SelectedNames(token_data[i], slot[1])})

\* The number of items with as many non-absent slots as this one.
CountFrequency(item) ==
    Cardinality({i \in 1..Len(token_data) : TraitsCount(token_data[i]) = TraitsCount(item)})

\* C5: the score of every item is the sum over its non-absent slots of
\* amount / (frequency of the slot's (category, name) pair) plus amount /
\* (frequency of its count of non-absent slots); absent slots add nothing.
C5_RarityScore ==
    "rarity_scores.csv" \in out_files =>
        \A i \in 1..Len(token_data) :
            LET item == token_data[i]
                present == SelectSeq(IndexSeq(Len(item)), LAMBDA k : item[k][2] # None)
                terms == [n \in 1..Len(present) |-> PairFrequency(item[present[n]])]
            IN statistics.rarity_scores[i][2]
                   = SumOfQuotients(amount, Append(terms, CountFrequency(item)))

\* A slot holds the row of the table: the same type, name and image.
HoldsRow(slot, row) == slot[1] = row[1] /\ slot[2] = row[2] /\ slot[Len(slot)] = row[4]

\* Exactly one slot per category.
OnePerCategory(item) ==
    /\ Len(item) = Cardinality(Categories(traits))
    /\ \A t \in Categories(traits) : Cardinality({k \in 1..Len(item) : item[k][1] = t}) = 1

\* The rows of every category are adjacent in the file.
Contiguous(tr) ==
    \A i, j \in 1..Len(tr) :
        (i < j /\ tr[i][1] = tr[j][1]) => \A k \in i..j : tr[k][1] = tr[i][1]

\* C6 as stated: every item holds one row per category and its slots are in
\* category first-occurrence order, interleaved rows or not.
C6_CategoryOrder ==
    \A i \in 1..Len(token_data) :
        /\ OnePerCategory(token_data[i])
        /\ SlotTypes(token_data[i]) = CategoryOrder(traits)

\* C6 amended: every item holds one row per category and its slots are in
\* the file order of the selected rows; when the rows of every category are
\* adjacent in the file that is category first-occurrence order, and slot k
\* belongs to the same category in every item.
C6_FileOrder ==
    \A i \in 1..Len(token_data) :
        LET item == token_data[i]
        IN /\ OnePerCategory(item)
           /\ \E rows \in [1..Len(item) -> 1..Len(traits)] :
                 /\ \A k \in 1..Len(item) : HoldsRow(item[k], traits[rows[k]])
                 /\ \A k \in 1..(Len(item) - 1) : rows[k] < rows[k + 1]
           /\ Contiguous(traits) => SlotTypes(item) = CategoryOrder(traits)

C6_Witness ==
    /\ pc = "done"
    /\ ~Contiguous(traits)
    /\ \E i \in 1..Len(token_data) : SlotTypes(token_data[i]) # CategoryOrder(traits)

\* C7: no run fails after the output directory, a table or an image has
\* been written.
C7_NoPartialOutput ==
    pc = "failed" => out_files = {} /\ images = {}

\* C8: a category whose weights sum to zero is rejected by the normalizer
\* with DegenerateWeightError; every group passed to the sampler has
\* probabilities that sum to 1.
C8_ZeroTotalRejected ==
    /\ (ZeroTotalCategory(traits) /\ pc \notin {"load", "normalize"}) => err = "DegenerateWeightError"
    /\ pc = "sample" =>
          \A g \in 1..Len(rarity_weight_groups) :
              LET group == rarity_weight_groups[g]
              IN /\ group[1][2][2] # 0
                 /\ SumSeq([k \in 1..Len(group) |-> group[k][2][1]]) = group[1][2][2]

\* C9: after a successful run the i-th metadata row is named "token #i",
\* exactly one image file "token #i.png" exists, and it is the composite of
\* the i-th item.
C9_OneImagePerRow ==
    pc = "done" =>
        \A i \in 1..amount :
            /\ metadata.rows[i].Name = TokenLabel(i)
            /\ Cardinality({f \in images : f.name = ImageFileName(i)}) = 1
            /\ \A f \in images :
                  f.name = ImageFileName(i) => f.content = ReduceImages(TraitImages(token_data[i]))

\* The selections of one row of strictly positive weight per category.
PositivePicks(tr) ==
    {S \in SUBSET (1..Len(tr)) :
        /\ \A i \in S : tr[i][3] > 0
        /\ \A t \in Categories(tr) : Cardinality({i \in S : tr[i][1] = t}) = 1}

\* The name tuples the sampler can draw with positive probability: the
\* names of such a selection, as the sampler forms the tuple.
DrawableNameTuples(tr) ==
    {[k \in 1..Len(SortSet(S)) |-> tr[SortSet(S)[k]][2]] : S \in PositivePicks(tr)}

Feasible == amount <= Cardinality(DrawableNameTuples(traits))

\* C10: the number of accepted items never exceeds amount, a draw leaves it
\* unchanged (rejected) or adds exactly one item (accepted), and when amount
\* is at most the number of drawable name tuples the loop ends with exactly
\* amount items.
C10_SamplerTerminates ==
    /\ [][pc = "sample" =>
            \/ pos' = pos /\ token_data' = token_data
            \/ /\ pos' = pos + 1
               /\ Len(token_data') = Len(token_data) + 1
               /\ SubSeq(token_data', 1, Len(token_data)) = token_data
               /\ pc' = "sample"
            \/ pc' = "metadata" /\ pos' = pos /\ Len(token_data') = Len(token_data)]_vars
    /\ [](pos <= amount /\ (pc = "sample" => pos = Len(token_data)))
    /\ (pc = "sample" /\ Feasible) ~> (pos = amount /\ Len(token_data) = amount)

C10_Witness ==
    /\ pc = "sample"
    /\ pos = amount
    /\ Feasible
    /\ amount = 2
    /\ Len(token_data) = 2
    /\ Cardinality(DrawableNameTuples(traits)) = 2
====
